---- MODULE Spec2Model ----
(***************************************************************************)
(* Model of automation/task_runner.py: TaskRunner (add_task, execute,      *)
(* _execute_task, _dependencies_met, _resolve_order).                      *)
(*                                                                         *)
(* execute is a coroutine; it is cut at its suspension points (the await   *)
(* of the task action and the await of asyncio.sleep) and at the head of   *)
(* its for loop.  The position is kept in pc.                              *)
(*                                                                         *)
(* Model of automation/proxy_rotation.py: ProxyRotation (get_next,         *)
(* report_failure, report_success, health_check, _check_single).           *)
(* health_check is cut at its await of asyncio.gather; each _check_single  *)
(* is cut at its await of the probe request.                               *)
(*                                                                         *)
(* Model of automation/wait_strategies.py: WaitStrategies.retry_until,     *)
(* cut at its await of the action and at its await of asyncio.sleep.       *)
(***************************************************************************)
EXTENDS Integers, Sequences, FiniteSets, TLC

\* ------------------------------------------------------------------ bounds
MaxRetry == 1      \* largest retry_count a caller passes
MaxReruns == 1     \* execute calls on one TaskRunner after the first
MaxRotations == 2  \* get_next calls that return a url, among other calls
MaxCycle == 7      \* get_next calls that return a url, on their own
MaxReports == 2    \* report_failure calls on one pool that name a member
MaxThreshold == 2  \* largest max_failures of a pool that gets every call
MaxSweeps == 1     \* health_check calls on one pool, among other calls
MaxRaceRotations == 1 \* get_next calls that return a url, among sweeps
MaxRaceReports == 2   \* report_failure calls on a member, among sweeps
MaxRaceSweeps == 2    \* health_check calls in flight at once
MaxRounds == 2     \* health_check calls on one pool, on their own
MaxRetriesArg == 3 \* largest max_retries given to retry_until
MaxTime == 2       \* latest reading of time.time()

\* ----------------------------------------------------- program constants
DefaultMaxFailures == 3   \* ProxyRotation.__init__(max_failures=3)
DefaultMaxRetries == 3    \* retry_until(max_retries=3)
DefaultDelay == 1         \* retry_until(delay=1.0)
DefaultBackoff == 2       \* retry_until(backoff=2.0)

\* ------------------------------------------------------------ input sets
TaskNames == {"A", "B", "C"}

\* Python values an action can produce: None, a falsy non-None value (0, "",
\* [], False) and a truthy one.
PyNone   == "None"
PyFalsy  == "0"
PyTruthy == "1"
Values   == {PyNone, PyFalsy, PyTruthy}

\* What an attempt can end with other than a value: the action raised, or
\* asyncio.wait_for raised TimeoutError.
Errors == {"boom", "TimeoutError"}

NoError == "None"
DepsNotMet == "Dependencies not met"
Unbound == "<unbound>"

\* TaskStatus (only the members the runner ever assigns are produced)
PENDING   == "pending"
RUNNING   == "running"
COMPLETED == "completed"
FAILED    == "failed"
SKIPPED   == "skipped"
CANCELLED == "cancelled"

Range(s) == {s[i] : i \in 1..Len(s)}

\* depends_on lists over the names in S that a caller can build with
\* depends(): any order, no repeated name
DepLists(S) ==
  {s \in UNION {[1..n -> S] : n \in 0..Cardinality(S)} :
      \A i, j \in 1..Len(s) : i # j => s[i] # s[j]}

\* the names used where one TaskRunner is executed again and again
RerunNames == {"A", "B"}

\* --------------------------------------------------------------- state
VARIABLES
  taskKeys,    \* self._tasks: the keys, in insertion order
  dependsOn,   \* AutomationTask.depends_on of the task under each key
  retryCount,  \* AutomationTask.retry_count of the task under each key
  results,     \* self._results: insertion-ordered sequence of TaskResult
  context,     \* the context dict of the running execute
  order,       \* execution_order of the running execute
  idx,         \* position of the for loop in execution_order
  attempt,     \* the loop variable of _execute_task
  pc,          \* position of execute
  wf,          \* the WorkflowResult returned by the last execute
  raisedExc,   \* the exception the last execute raised
  lastError,   \* observation: error of the latest attempt, if it failed
  calls,       \* observation: action invocations of the current task
  sleeps,      \* observation: backoff sleeps of the current task
  runs         \* number of execute calls so far on this TaskRunner

VARIABLES
  proxies,     \* self._proxies: sequence of ProxyInfo
  maxFailures, \* self.max_failures
  rrIndex,     \* self._index
  stats,       \* self._stats
  now,         \* the latest reading of time.time()
  hcPc,        \* position of health_check: "idle" or "gathering"
  probe,       \* per record, the _check_single of the running health_check
  hcResult,    \* the dict returned by the last health_check
  sweeps,      \* number of health_check calls so far
  lastOp,      \* observation: the latest call on the pool and what it gave
  streak,      \* observation: consecutive report_failure calls per url
  rrCalls,     \* observation: number of round-robin get_next calls so far
  hcPc2,       \* position of a health_check called while one is running
  probe2,      \* per record, the _check_single of that second health_check
  failuresSince \* observation: per record, the failures reported or probed
               \* since its last report_success or successful probe

VARIABLES
  max_retries,   \* retry_until: the argument max_retries
  delay,         \* retry_until: the argument delay
  backoff,       \* retry_until: the argument backoff
  current_delay, \* retry_until: the local current_delay
  last_error,    \* retry_until: the local last_error
  ru_attempt,    \* retry_until: the loop variable attempt
  ru_pc,         \* retry_until: "idle", "calling", "sleeping" or over
  ru_done,       \* what retry_until returned or raised
  ru_outcomes,   \* observation: how each invocation of the action ended
  ru_waits       \* observation: the argument of each asyncio.sleep

retryVars == <<max_retries, delay, backoff, current_delay, last_error,
               ru_attempt, ru_pc, ru_done, ru_outcomes, ru_waits>>

runnerVars == <<taskKeys, dependsOn, retryCount, results, context, order,
                idx, attempt, pc, wf, raisedExc, lastError, calls, sleeps,
                runs>>

poolVars == <<proxies, maxFailures, rrIndex, stats, now, hcPc, probe,
              hcResult, sweeps, lastOp, streak, rrCalls, hcPc2, probe2,
              failuresSince>>

vars == <<taskKeys, dependsOn, retryCount, results, context, order, idx,
          attempt, pc, wf, raisedExc, lastError, calls, sleeps, runs,
          proxies, maxFailures, rrIndex, stats, now, hcPc, probe,
          hcResult, sweeps, lastOp, streak, rrCalls, hcPc2, probe2,
          failuresSince,
          max_retries, delay, backoff, current_delay, last_error,
          ru_attempt, ru_pc, ru_done, ru_outcomes, ru_waits>>

Absent == "<absent>"

\* pc: "idle" before an execute; "loop" at the head of the for loop of
\* execute; "call" awaiting the action; "sleep" awaiting asyncio.sleep(1);
\* "returned" / "raised" an execute is over and nothing was registered since
Over == {"returned", "raised"}

NoWorkflow ==
  [total_tasks |-> 0, completed |-> 0, failed |-> 0, skipped |-> 0,
   task_results |-> <<>>]

EmptyContext == [n \in TaskNames |-> Absent]

\* ------------------------------------------------- ordered dict helpers
IsRegistered(keys, name) == name \in Range(keys)

HasResult(rs, name) == \E i \in 1..Len(rs) : rs[i].task_name = name

\* self._results.get(name)
GetResult(rs, name) ==
  rs[CHOOSE i \in 1..Len(rs) : rs[i].task_name = name]

\* results kept as a list that every record is appended to
PutResult_append(rs, r) == Append(rs, r)

\* self._results[name] = r : an existing key keeps its position
PutResult(rs, r) ==
  IF HasResult(rs, r.task_name)
  THEN [i \in 1..Len(rs) |->
          IF rs[i].task_name = r.task_name THEN r ELSE rs[i]]
  ELSE Append(rs, r)

TaskResult(name, status, data, error) ==
  [task_name |-> name, status |-> status, result_data |-> data,
   error |-> error]

\* ------------------------------------------------------- ProxyRotation
\* the endpoint strings given to the report calls
Urls == {"a", "b"}

None == "None"

\* ProxyInfo(url=url): the dataclass defaults, lines 24-28
ProxyInfo(url) ==
  [url |-> url, is_healthy |-> TRUE, fail_count |-> 0, last_used |-> 0]

NoOp == [op |-> "construct", arg |-> None, i |-> 0, ret |-> None]

\* ProxyRotation.__init__(proxies=list, max_failures=mf)
InitPool(list, mf) ==
  /\ proxies = [i \in 1..Len(list) |-> ProxyInfo(list[i])]
  /\ maxFailures = mf
  /\ rrIndex = 0
  /\ stats = [rotations |-> 0, failures |-> 0]
  /\ now = 0
  /\ hcPc = "idle"
  /\ probe = [i \in 1..Len(list) |-> "none"]
  /\ hcResult = [healthy |-> 0, unhealthy |-> 0]
  /\ sweeps = 0
  /\ lastOp = NoOp
  /\ streak = [u \in Range(list) |-> 0]
  /\ rrCalls = 0
  /\ hcPc2 = "idle"
  /\ probe2 = [i \in 1..Len(list) |-> "none"]
  /\ failuresSince = [i \in 1..Len(list) |-> 0]

\* retry_until is not running: its arguments at their defaults, no locals
NotDone == [how |-> "none", what |-> None]

NotRetrying ==
  /\ max_retries = DefaultMaxRetries
  /\ delay = DefaultDelay
  /\ backoff = DefaultBackoff
  /\ current_delay = DefaultDelay
  /\ last_error = None
  /\ ru_attempt = 0
  /\ ru_pc = "idle"
  /\ ru_done = NotDone
  /\ ru_outcomes = <<>>
  /\ ru_waits = <<>>

\* TaskRunner.__init__
InitRunner ==
  /\ taskKeys = <<>>
  /\ dependsOn = [n \in TaskNames |-> <<>>]
  /\ retryCount = [n \in TaskNames |-> 0]
  /\ results = <<>>
  /\ context = EmptyContext
  /\ order = <<>>
  /\ idx = 0
  /\ attempt = 0
  /\ pc = "idle"
  /\ wf = NoWorkflow
  /\ raisedExc = NoError
  /\ lastError = NoError
  /\ calls = 0
  /\ sleeps = 0
  /\ runs = 0

Init ==
  /\ InitRunner
  /\ NotRetrying
  /\ InitPool(<<>>, DefaultMaxFailures)

\* self._tasks[task.name] = task, for
\* AutomationTask(name, action, retry_count=rc).depends(*deps):
\* registers, or overwrites under the same key (which keeps its position).
\* What the last execute returned or raised no longer describes the
\* TaskRunner, so the position goes back to "idle".
register(name, deps, rc) ==
  /\ UNCHANGED poolVars
  /\ UNCHANGED retryVars
  /\ taskKeys' = IF IsRegistered(taskKeys, name) THEN taskKeys
                 ELSE Append(taskKeys, name)
  /\ dependsOn' = [dependsOn EXCEPT ![name] = deps]
  /\ retryCount' = [retryCount EXCEPT ![name] = rc]
  /\ pc' = "idle"
  /\ UNCHANGED <<results, context, order, idx, attempt, wf, raisedExc,
                 lastError, calls, sleeps, runs>>

\* add_task on a TaskRunner on which no execute is in progress
add_task(name, deps, rc) ==
  /\ pc = "idle"
  /\ register(name, deps, rc)

\* add_task once an execute is over and another one is to follow
add_task_again(name, deps, rc) ==
  /\ pc \in Over
  /\ runs <= MaxReruns
  /\ register(name, deps, rc)

\* ------------------------------------------------------ _resolve_order
\* st is the pair of closure variables of visit: [visited, order]
RECURSIVE visit(_, _, _, _), visit_all(_, _, _, _)

\* visit with the append moved before the loop over the dependencies
visit_append_first(name, st, keys, deps) ==
  IF name \in st.visited
  THEN st
  ELSE LET st1 == [st EXCEPT !.visited = @ \cup {name}]
       IN  IF IsRegistered(keys, name)
           THEN visit_all(deps[name],
                          [st1 EXCEPT !.order = Append(@, name)], keys, deps)
           ELSE st1

\* def visit(name)
visit(name, st, keys, deps) ==
  IF name \in st.visited
  THEN st
  ELSE LET st1 == [st EXCEPT !.visited = @ \cup {name}]
       IN  IF IsRegistered(keys, name)
           THEN LET st2 == visit_all(deps[name], st1, keys, deps)
                IN  [st2 EXCEPT !.order = Append(@, name)]
           ELSE st1

\* for dep in task.depends_on: visit(dep)   /   for name in self._tasks: ...
visit_all(names, st, keys, deps) ==
  IF names = <<>>
  THEN st
  ELSE visit_all(Tail(names), visit(Head(names), st, keys, deps), keys, deps)

resolve_order(keys, deps) ==
  visit_all(keys, [visited |-> {}, order |-> <<>>], keys, deps).order

\* ---------------------------------------------------- _dependencies_met
dependencies_met(deps, rs) ==
  \A i \in 1..Len(deps) :
     /\ HasResult(rs, deps[i])
     /\ GetResult(rs, deps[i]).status = COMPLETED

\* bool(result.result_data)
Truthy(v) == v # PyNone /\ v # PyFalsy

\* context[task_name] = result.result_data, guarded as on line 97
merge_context(ctx, r) ==
  IF r.status = COMPLETED /\ Truthy(r.result_data)
  THEN [ctx EXCEPT ![r.task_name] = r.result_data]
  ELSE ctx

\* sum(1 for r in results if r.status == s)
Tally(rs, s) == Cardinality({i \in 1..Len(rs) : rs[i].status = s})

\* the WorkflowResult built on lines 101-113
WorkflowResult(rs) ==
  [total_tasks |-> Len(rs),
   completed |-> Tally(rs, COMPLETED),
   failed |-> Tally(rs, FAILED),
   skipped |-> Tally(rs, SKIPPED),
   task_results |-> rs]

\* "except Exception as e": Python unbinds e when the except clause ends,
\* so after the for loop of _execute_task the name e is not bound.
AfterExceptClause(err) == Unbound

\* ------------------------------------------------------------- execute
\* the locals of execute and _execute_task once the call is over
LocalsGone ==
  /\ context' = EmptyContext
  /\ order' = <<>>
  /\ idx' = 0
  /\ attempt' = 0
  /\ calls' = 0
  /\ sleeps' = 0

\* execute(): lines 77-82, up to the head of the for loop
begin_execute ==
  /\ UNCHANGED poolVars
  /\ UNCHANGED retryVars
  /\ runs' = runs + 1
  /\ context' = EmptyContext
  /\ order' = resolve_order(taskKeys, dependsOn)
  /\ idx' = 1
  /\ attempt' = 0
  /\ pc' = "loop"
  /\ wf' = NoWorkflow
  /\ raisedExc' = NoError
  /\ lastError' = NoError
  /\ calls' = 0
  /\ sleeps' = 0
  /\ UNCHANGED <<taskKeys, dependsOn, retryCount, results>>

\* execute of a TaskRunner as it was built or re-built
execute ==
  /\ pc = "idle"
  /\ begin_execute

\* execute of the same TaskRunner right after an execute
execute_again ==
  /\ pc \in Over
  /\ runs <= MaxReruns
  /\ begin_execute

\* lines 87-92: dependencies not met, record skipped and continue
skip_task ==
  /\ UNCHANGED poolVars
  /\ UNCHANGED retryVars
  /\ pc = "loop"
  /\ idx <= Len(order)
  /\ ~dependencies_met(dependsOn[order[idx]], results)
  /\ results' = PutResult(results,
                  TaskResult(order[idx], SKIPPED, PyNone, DepsNotMet))
  /\ idx' = idx + 1
  /\ UNCHANGED <<taskKeys, dependsOn, retryCount, context, order, attempt,
                 pc, wf, raisedExc, lastError, calls, sleeps, runs>>

\* line 94 and lines 119-124: enter _execute_task, first call of the action
invoke_task ==
  /\ UNCHANGED poolVars
  /\ UNCHANGED retryVars
  /\ pc = "loop"
  /\ idx <= Len(order)
  /\ dependencies_met(dependsOn[order[idx]], results)
  /\ attempt' = 0
  /\ calls' = 1
  /\ sleeps' = 0
  /\ lastError' = NoError
  /\ pc' = "call"
  /\ UNCHANGED <<taskKeys, dependsOn, retryCount, results, context, order,
                 idx, wf, raisedExc, runs>>

\* lines 125-129 and 95-98: the awaited action produced v
action_returns(v) ==
  /\ UNCHANGED poolVars
  /\ UNCHANGED retryVars
  /\ pc = "call"
  /\ LET r == TaskResult(order[idx], COMPLETED, v, NoError)
     IN  /\ results' = PutResult(results, r)
         /\ context' = merge_context(context, r)
  /\ idx' = idx + 1
  /\ pc' = "loop"
  /\ lastError' = NoError
  /\ UNCHANGED <<taskKeys, dependsOn, retryCount, order, attempt, wf,
                 raisedExc, calls, sleeps, runs>>

\* the retry test written as attempt <= retry_count
action_fails_retry_off_by_one(err) ==
  /\ UNCHANGED poolVars
  /\ UNCHANGED retryVars
  /\ pc = "call"
  /\ attempt <= retryCount[order[idx]]
  /\ lastError' = err
  /\ sleeps' = sleeps + 1
  /\ pc' = "sleep"
  /\ UNCHANGED <<taskKeys, dependsOn, retryCount, results, context, order,
                 idx, attempt, wf, raisedExc, calls, runs>>

\* lines 130-133: the attempt raised or timed out and a retry remains
action_fails_retry(err) ==
  /\ UNCHANGED poolVars
  /\ UNCHANGED retryVars
  /\ pc = "call"
  /\ attempt < retryCount[order[idx]]
  /\ lastError' = err
  /\ sleeps' = sleeps + 1
  /\ pc' = "sleep"
  /\ UNCHANGED <<taskKeys, dependsOn, retryCount, results, context, order,
                 idx, attempt, wf, raisedExc, calls, runs>>

\* lines 130-139: the last attempt raised or timed out; the for loop ends
\* and the FAILED result is built from str(e)
action_fails_last(err) ==
  /\ UNCHANGED poolVars
  /\ UNCHANGED retryVars
  /\ pc = "call"
  /\ ~(attempt < retryCount[order[idx]])
  /\ lastError' = err
  /\ LET e == AfterExceptClause(err)
     IN  IF e = Unbound
         THEN /\ pc' = "raised"
              /\ raisedExc' = "UnboundLocalError"
              /\ results' = results
              /\ LocalsGone
         ELSE /\ results' = PutResult(results,
                              TaskResult(order[idx], FAILED, PyNone, e))
              /\ idx' = idx + 1
              /\ pc' = "loop"
              /\ UNCHANGED <<raisedExc, context, order, attempt, calls,
                             sleeps>>
  /\ UNCHANGED <<taskKeys, dependsOn, retryCount, wf, runs>>

\* line 133 returns: next iteration of "for attempt", the action is called
sleep_done ==
  /\ UNCHANGED poolVars
  /\ UNCHANGED retryVars
  /\ pc = "sleep"
  /\ attempt' = attempt + 1
  /\ calls' = calls + 1
  /\ pc' = "call"
  /\ UNCHANGED <<taskKeys, dependsOn, retryCount, results, context, order,
                 idx, wf, raisedExc, lastError, sleeps, runs>>

\* lines 100-113: the for loop is over
return_workflow ==
  /\ UNCHANGED poolVars
  /\ UNCHANGED retryVars
  /\ pc = "loop"
  /\ idx > Len(order)
  /\ wf' = WorkflowResult(results)
  /\ pc' = "returned"
  /\ LocalsGone
  /\ UNCHANGED <<taskKeys, dependsOn, retryCount, results, raisedExc,
                 lastError, runs>>

\* what one execute does once begun
RunStep ==
  \/ skip_task
  \/ invoke_task
  \/ \E v \in Values : action_returns(v)
  \/ \E err \in Errors : action_fails_retry(err)
  \/ \E err \in Errors : action_fails_last(err)
  \/ sleep_done
  \/ return_workflow

\* One execute of a freshly built TaskRunner over up to three tasks, none
\* of which names itself.
Next ==
  \/ \E name \in TaskNames, rc \in 0..MaxRetry :
       \E deps \in DepLists(TaskNames \ {name}) : add_task(name, deps, rc)
  \/ execute
  \/ RunStep

Spec == Init /\ [][Next]_vars

\* A TaskRunner over up to two tasks that is executed repeatedly, tasks
\* being registered and overwritten before and between the executes.
NextRerun ==
  \/ \E name \in RerunNames, rc \in 0..MaxRetry :
       \E deps \in DepLists(RerunNames) : add_task(name, deps, rc)
  \/ \E name \in RerunNames, rc \in 0..MaxRetry :
       \E deps \in DepLists(RerunNames) : add_task_again(name, deps, rc)
  \/ execute
  \/ execute_again
  \/ RunStep

SpecRerun == Init /\ [][NextRerun]_vars

\* ------------------------------------------------- ProxyRotation: inputs
Strategies == {"round_robin", "random", "least_used"}

\* lists of endpoint strings given to the constructor: empty, one url
\* ("b" is then no member), two urls, one url twice (the constructor
\* builds one record per element)
PoolLists == {<<>>, <<"a">>, <<"a", "b">>, <<"a", "a">>}

\* values of max_failures
Thresholds == 1..MaxThreshold

\* how the request of _check_single ends: status 200, another status,
\* or an exception (timeout, connection error)
ProbeOutcomes == {"ok", "bad_status", "exception"}

\* ------------------------------------------------ ProxyRotation.get_next
\* get_next without the filter of line 76: every record is a candidate
HealthyIdx_unfiltered(ps) ==
  [i \in 1..Len(ps) |-> i]

\* healthy = [p for p in self._proxies if p.is_healthy], as positions
HealthyIdx(ps) ==
  SelectSeq([i \in 1..Len(ps) |-> i], LAMBDA i : ps[i].is_healthy)

\* the minimum taken as the last of several equal ones
LeastUsed_last_minimum(ps, healthy) ==
  CHOOSE k \in 1..Len(healthy) :
    /\ \A j \in 1..Len(healthy) :
          ps[healthy[k]].last_used <= ps[healthy[j]].last_used
    /\ \A j \in (k + 1)..Len(healthy) :
          ps[healthy[j]].last_used > ps[healthy[k]].last_used

\* min(healthy, key=lambda p: p.last_used): the first minimum
LeastUsed(ps, healthy) ==
  CHOOSE k \in 1..Len(healthy) :
    /\ \A j \in 1..Len(healthy) :
          ps[healthy[k]].last_used <= ps[healthy[j]].last_used
    /\ \A j \in 1..(k - 1) :
          ps[healthy[j]].last_used > ps[healthy[k]].last_used

\* round robin reading the cursor after its increment
Pick_after_increment(strategy, ps, healthy, index) ==
  IF strategy = "random" THEN 1..Len(healthy)
  ELSE IF strategy = "least_used" THEN {LeastUsed(ps, healthy)}
  ELSE {((index + 1) % Len(healthy)) + 1}

\* the positions in healthy the strategy may choose
Pick(strategy, ps, healthy, index) ==
  IF strategy = "random" THEN 1..Len(healthy)
  ELSE IF strategy = "least_used" THEN {LeastUsed(ps, healthy)}
  ELSE {(index % Len(healthy)) + 1}

\* a cursor that every strategy advances
NextIndex_every_strategy(strategy, index, n) ==
  (index % n) + 1

\* self._index after the call: lines 86 and 88 run in the else branch only
NextIndex(strategy, index, n) ==
  IF strategy \in {"random", "least_used"}
  THEN index
  ELSE (index % n) + 1

\* time.time(): later than the epoch and not before the last reading
Readings == {t \in 1..MaxTime : t >= now /\ t <= now + 1}

get_next(strategy) ==
  LET healthy == HealthyIdx(proxies) IN
  /\ UNCHANGED <<hcPc2, probe2, failuresSince>>
  /\ UNCHANGED runnerVars
  /\ UNCHANGED retryVars
  /\ UNCHANGED <<maxFailures, hcPc, probe, hcResult, sweeps, streak>>
  /\ IF healthy = <<>>
     THEN /\ lastOp' = [op |-> "get_next", arg |-> strategy, i |-> 0,
                        ret |-> None]
          /\ UNCHANGED <<proxies, rrIndex, stats, now, rrCalls>>
     ELSE /\ \E k \in Pick(strategy, proxies, healthy, rrIndex) :
             \E t \in Readings :
               /\ rrIndex' = NextIndex(strategy, rrIndex, Len(healthy))
               /\ rrCalls' = IF strategy \in {"random", "least_used"}
                             THEN rrCalls
                             ELSE rrCalls + 1
               /\ now' = t
               /\ proxies' = [proxies EXCEPT ![healthy[k]].last_used = t]
               /\ stats' = [stats EXCEPT !.rotations = @ + 1]
               /\ lastOp' = [op |-> "get_next", arg |-> strategy,
                             i |-> healthy[k],
                             ret |-> proxies[healthy[k]].url]

\* ------------------------------------- report_failure / report_success
\* a lookup that goes on to the last record whose url matches
FirstMatch_last(ps, u) ==
  IF \E i \in 1..Len(ps) : ps[i].url = u
  THEN CHOOSE i \in 1..Len(ps) :
         /\ ps[i].url = u
         /\ \A j \in (i + 1)..Len(ps) : ps[j].url # u
  ELSE 0

\* for p in self._proxies: if p.url == url: ...; break
FirstMatch(ps, u) ==
  IF \E i \in 1..Len(ps) : ps[i].url = u
  THEN CHOOSE i \in 1..Len(ps) :
         /\ ps[i].url = u
         /\ \A j \in 1..(i - 1) : ps[j].url # u
  ELSE 0

\* a failure that lowers the counter of a record already at the threshold
Failed_wraps(p, mf) ==
  [p EXCEPT !.fail_count = IF @ >= mf THEN @ - 1 ELSE @ + 1,
            !.is_healthy = IF p.fail_count + 1 >= mf THEN FALSE ELSE @]

\* the threshold of lines 101 and 145 taken as strictly greater
Failed_strict(p, mf) ==
  [p EXCEPT !.fail_count = @ + 1,
            !.is_healthy = IF p.fail_count + 1 > mf THEN FALSE ELSE @]

\* p.fail_count += 1; if p.fail_count >= self.max_failures: unhealthy
Failed(p, mf) ==
  [p EXCEPT !.fail_count = @ + 1,
            !.is_healthy = IF p.fail_count + 1 >= mf THEN FALSE ELSE @]

\* the reset of the counter without line 111
Succeeded_count_only(p) ==
  [p EXCEPT !.fail_count = 0]

\* p.fail_count = 0; p.is_healthy = True
Succeeded(p) ==
  [p EXCEPT !.fail_count = 0, !.is_healthy = TRUE]

report_failure(u) ==
  LET i == FirstMatch(proxies, u) IN
  /\ UNCHANGED <<hcPc2, probe2>>
  /\ failuresSince' = IF i = 0
                      THEN failuresSince
                      ELSE [failuresSince EXCEPT ![i] = @ + 1]
  /\ UNCHANGED runnerVars
  /\ UNCHANGED retryVars
  /\ UNCHANGED <<maxFailures, rrIndex, now, hcPc, probe, hcResult, sweeps,
                 rrCalls>>
  /\ IF i = 0
     THEN UNCHANGED <<proxies, stats>>
     ELSE /\ proxies' = [proxies EXCEPT ![i] = Failed(@, maxFailures)]
          /\ stats' = [stats EXCEPT !.failures = @ + 1]
  /\ streak' = IF i = 0 \/ streak[u] >= maxFailures
               THEN streak
               ELSE [streak EXCEPT ![u] = @ + 1]
  /\ lastOp' = [op |-> "report_failure", arg |-> u, i |-> i, ret |-> None]

report_success(u) ==
  LET i == FirstMatch(proxies, u) IN
  /\ UNCHANGED <<hcPc2, probe2>>
  /\ failuresSince' = IF i = 0
                      THEN failuresSince
                      ELSE [failuresSince EXCEPT ![i] = 0]
  /\ UNCHANGED runnerVars
  /\ UNCHANGED retryVars
  /\ UNCHANGED <<maxFailures, rrIndex, stats, now, hcPc, probe, hcResult,
                 sweeps, rrCalls>>
  /\ IF i = 0
     THEN UNCHANGED proxies
     ELSE proxies' = [proxies EXCEPT ![i] = Succeeded(@)]
  /\ streak' = IF i = 0 THEN streak ELSE [streak EXCEPT ![u] = 0]
  /\ lastOp' = [op |-> "report_success", arg |-> u, i |-> i, ret |-> None]

\* ------------------------------------------ health_check / _check_single
\* tasks = [self._check_single(p) for p in self._proxies]; await gather
health_check ==
  /\ hcPc = "idle"
  /\ hcPc' = "gathering"
  /\ sweeps' = sweeps + 1
  /\ probe' = [i \in 1..Len(proxies) |-> "pending"]
  /\ lastOp' = [op |-> "health_check", arg |-> None, i |-> 0, ret |-> None]
  /\ UNCHANGED <<hcPc2, probe2, failuresSince>>
  /\ UNCHANGED runnerVars
  /\ UNCHANGED retryVars
  /\ UNCHANGED <<proxies, maxFailures, rrIndex, stats, now, hcResult,
                 streak, rrCalls>>

\* _check_single(p) resumes with status 200
check_single_ok(i) ==
  /\ hcPc = "gathering"
  /\ i \in 1..Len(proxies)
  /\ probe[i] = "pending"
  /\ proxies' = [proxies EXCEPT ![i] = Succeeded(@)]
  /\ probe' = [probe EXCEPT ![i] = "ok"]
  /\ streak' = [streak EXCEPT ![proxies[i].url] = 0]
  /\ lastOp' = [op |-> "probe", arg |-> "ok", i |-> i, ret |-> None]
  /\ UNCHANGED <<hcPc2, probe2>>
  /\ failuresSince' = [failuresSince EXCEPT ![i] = 0]
  /\ UNCHANGED runnerVars
  /\ UNCHANGED retryVars
  /\ UNCHANGED <<maxFailures, rrIndex, stats, now, hcPc, hcResult, sweeps,
                 rrCalls>>

\* a failed probe that is counted in the failures statistic
check_single_fails_counted(i, outcome) ==
  /\ hcPc = "gathering"
  /\ i \in 1..Len(proxies)
  /\ probe[i] = "pending"
  /\ outcome \in ProbeOutcomes \ {"ok"}
  /\ proxies' = [proxies EXCEPT ![i] = Failed(@, maxFailures)]
  /\ probe' = [probe EXCEPT ![i] = outcome]
  /\ lastOp' = [op |-> "probe", arg |-> outcome, i |-> i, ret |-> None]
  /\ UNCHANGED <<hcPc2, probe2>>
  /\ failuresSince' = [failuresSince EXCEPT ![i] = @ + 1]
  /\ UNCHANGED runnerVars
  /\ UNCHANGED retryVars
  /\ UNCHANGED <<maxFailures, rrIndex, now, hcPc, hcResult, sweeps,
                 streak, rrCalls>>
  /\ stats' = [stats EXCEPT !.failures = @ + 1]

\* _check_single(p) resumes with another status or with an exception,
\* which the except clause swallows
check_single_fails(i, outcome) ==
  /\ hcPc = "gathering"
  /\ i \in 1..Len(proxies)
  /\ probe[i] = "pending"
  /\ outcome \in ProbeOutcomes \ {"ok"}
  /\ proxies' = [proxies EXCEPT ![i] = Failed(@, maxFailures)]
  /\ probe' = [probe EXCEPT ![i] = outcome]
  /\ lastOp' = [op |-> "probe", arg |-> outcome, i |-> i, ret |-> None]
  /\ UNCHANGED <<hcPc2, probe2>>
  /\ failuresSince' = [failuresSince EXCEPT ![i] = @ + 1]
  /\ UNCHANGED runnerVars
  /\ UNCHANGED retryVars
  /\ UNCHANGED <<maxFailures, rrIndex, stats, now, hcPc, hcResult, sweeps,
                 streak, rrCalls>>

\* the count taken from the probes' outcomes, not from is_healthy
healthy_count_of_probes(ps) ==
  Cardinality({i \in 1..Len(ps) : probe[i] = "ok"})

\* healthy = sum(1 for p in self._proxies if p.is_healthy)
healthy_count(ps) ==
  Len(HealthyIdx(ps))

\* a health_check that counts as soon as one probe has settled
health_check_returns_early ==
  /\ hcPc = "gathering"
  /\ \E i \in 1..Len(probe) : probe[i] # "pending"
  /\ hcResult' = [healthy |-> healthy_count(proxies),
                  unhealthy |-> Len(proxies) - healthy_count(proxies)]
  /\ hcPc' = "idle"
  /\ lastOp' = [op |-> "health_check", arg |-> None, i |-> 0,
                ret |-> "counts"]
  /\ UNCHANGED <<hcPc2, probe2, failuresSince>>
  /\ UNCHANGED runnerVars
  /\ UNCHANGED retryVars
  /\ UNCHANGED <<proxies, maxFailures, rrIndex, stats, now, probe, sweeps,
                 streak, rrCalls>>

\* gather has every result: health_check counts and returns
health_check_returns ==
  /\ hcPc = "gathering"
  /\ \A i \in 1..Len(probe) : probe[i] # "pending"
  /\ hcResult' = [healthy |-> healthy_count(proxies),
                  unhealthy |-> Len(proxies) - healthy_count(proxies)]
  /\ hcPc' = "idle"
  /\ lastOp' = [op |-> "health_check", arg |-> None, i |-> 0,
                ret |-> "counts"]
  /\ UNCHANGED <<hcPc2, probe2, failuresSince>>
  /\ UNCHANGED runnerVars
  /\ UNCHANGED retryVars
  /\ UNCHANGED <<proxies, maxFailures, rrIndex, stats, now, probe, sweeps,
                 streak, rrCalls>>

\* ---------------------- a second health_check while the first is running
\* health_check called by another coroutine during the gather of the
\* first: the same code on its own list of _check_single tasks
health_check_meanwhile ==
  /\ hcPc = "gathering"
  /\ hcPc2 = "idle"
  /\ hcPc2' = "gathering"
  /\ sweeps' = sweeps + 1
  /\ probe2' = [i \in 1..Len(proxies) |-> "pending"]
  /\ lastOp' = [op |-> "health_check", arg |-> "meanwhile", i |-> 0,
                ret |-> None]
  /\ UNCHANGED <<proxies, maxFailures, rrIndex, stats, now, hcPc, probe,
                 hcResult, streak, rrCalls, failuresSince>>
  /\ UNCHANGED runnerVars
  /\ UNCHANGED retryVars

\* a _check_single of the second health_check resumes with status 200
check_single_ok_meanwhile(i) ==
  /\ hcPc2 = "gathering"
  /\ i \in 1..Len(proxies)
  /\ probe2[i] = "pending"
  /\ proxies' = [proxies EXCEPT ![i] = Succeeded(@)]
  /\ probe2' = [probe2 EXCEPT ![i] = "ok"]
  /\ streak' = [streak EXCEPT ![proxies[i].url] = 0]
  /\ failuresSince' = [failuresSince EXCEPT ![i] = 0]
  /\ lastOp' = [op |-> "probe", arg |-> "ok", i |-> i, ret |-> None]
  /\ UNCHANGED <<maxFailures, rrIndex, stats, now, hcPc, probe, hcResult,
                 sweeps, rrCalls, hcPc2>>
  /\ UNCHANGED runnerVars
  /\ UNCHANGED retryVars

\* a write of the counter from a value read before the await: the
\* failures counted in between are lost
check_single_fails_meanwhile_stale(i, outcome) ==
  /\ hcPc2 = "gathering"
  /\ i \in 1..Len(proxies)
  /\ probe2[i] = "pending"
  /\ outcome \in ProbeOutcomes \ {"ok"}
  /\ proxies' = [proxies EXCEPT ![i] = Failed(ProxyInfo(@.url), maxFailures)]
  /\ probe2' = [probe2 EXCEPT ![i] = outcome]
  /\ failuresSince' = [failuresSince EXCEPT ![i] = @ + 1]
  /\ lastOp' = [op |-> "probe", arg |-> outcome, i |-> i, ret |-> None]
  /\ UNCHANGED <<maxFailures, rrIndex, stats, now, hcPc, probe, hcResult,
                 sweeps, streak, rrCalls, hcPc2>>
  /\ UNCHANGED runnerVars
  /\ UNCHANGED retryVars

\* a _check_single of the second health_check resumes with another
\* status or with an exception
check_single_fails_meanwhile(i, outcome) ==
  /\ hcPc2 = "gathering"
  /\ i \in 1..Len(proxies)
  /\ probe2[i] = "pending"
  /\ outcome \in ProbeOutcomes \ {"ok"}
  /\ proxies' = [proxies EXCEPT ![i] = Failed(@, maxFailures)]
  /\ probe2' = [probe2 EXCEPT ![i] = outcome]
  /\ failuresSince' = [failuresSince EXCEPT ![i] = @ + 1]
  /\ lastOp' = [op |-> "probe", arg |-> outcome, i |-> i, ret |-> None]
  /\ UNCHANGED <<maxFailures, rrIndex, stats, now, hcPc, probe, hcResult,
                 sweeps, streak, rrCalls, hcPc2>>
  /\ UNCHANGED runnerVars
  /\ UNCHANGED retryVars

\* the second health_check has every result and returns its counts
health_check_returns_meanwhile ==
  /\ hcPc2 = "gathering"
  /\ \A i \in 1..Len(probe2) : probe2[i] # "pending"
  /\ hcPc2' = "idle"
  /\ lastOp' = [op |-> "health_check", arg |-> "meanwhile", i |-> 0,
                ret |-> "counts"]
  /\ UNCHANGED <<proxies, maxFailures, rrIndex, stats, now, hcPc, probe,
                 hcResult, sweeps, streak, rrCalls, probe2, failuresSince>>
  /\ UNCHANGED runnerVars
  /\ UNCHANGED retryVars

\* --------------------------------------------- ProxyRotation: behaviours
\* one pool built from any list of PoolLists, every call interleaved
InitPools ==
  /\ InitRunner
  /\ NotRetrying
  /\ \E list \in PoolLists : \E mf \in Thresholds : InitPool(list, mf)

\* the guards that keep the counters of a behaviour within the bounds
MayRotate(limit) == stats.rotations < limit \/ HealthyIdx(proxies) = <<>>
MayReport == stats.failures < MaxReports
MaySweep == sweeps < MaxSweeps

NextPool ==
  \/ \E s \in Strategies : MayRotate(MaxRotations) /\ get_next(s)
  \/ \E u \in Urls : MayReport /\ report_failure(u)
  \/ \E u \in Urls : report_success(u)
  \/ MaySweep /\ health_check
  \/ \E i \in 1..Len(proxies) : check_single_ok(i)
  \/ \E i \in 1..Len(proxies) :
       \E o \in ProbeOutcomes \ {"ok"} : check_single_fails(i, o)
  \/ health_check_returns

SpecPool == InitPools /\ [][NextPool]_vars

\* one freshly built pool of up to five records with any max_failures up
\* to the default, and health_check calls alone
SweepUrls == <<"a", "b", "c", "d", "e">>
SweepLists == {SubSeq(SweepUrls, 1, n) : n \in 0..Len(SweepUrls)}

InitSweep ==
  /\ InitRunner
  /\ NotRetrying
  /\ \E list \in SweepLists :
       \E mf \in 1..DefaultMaxFailures : InitPool(list, mf)

NextSweep ==
  \/ sweeps < MaxRounds /\ health_check
  \/ \E i \in 1..Len(proxies) : check_single_ok(i)
  \/ \E i \in 1..Len(proxies) :
       \E o \in ProbeOutcomes \ {"ok"} : check_single_fails(i, o)
  \/ health_check_returns

SpecSweep == InitSweep /\ [][NextSweep]_vars

\* the pool [a, b, c] with get_next calls alone, so that every record
\* stays healthy
RotateList == <<"a", "b", "c">>

InitRotate ==
  /\ InitRunner
  /\ NotRetrying
  /\ InitPool(RotateList, DefaultMaxFailures)

NextRotate ==
  \E s \in Strategies : MayRotate(MaxCycle) /\ get_next(s)

SpecRotate == InitRotate /\ [][NextRotate]_vars

\* one pool with two health_check calls in flight at once, and reports
\* and get_next calls at every suspension point of their probes; the
\* pool has one record, on which every writer meets ("b" is no member)
RaceLists == {<<"a">>}

InitRace ==
  /\ InitRunner
  /\ NotRetrying
  /\ \E list \in RaceLists : \E mf \in Thresholds : InitPool(list, mf)

NextRace ==
  \/ \E s \in Strategies : MayRotate(MaxRaceRotations) /\ get_next(s)
  \/ \E u \in Urls : stats.failures < MaxRaceReports /\ report_failure(u)
  \/ \E u \in Urls : report_success(u)
  \/ sweeps = 0 /\ health_check
  \/ sweeps < MaxRaceSweeps /\ health_check_meanwhile
  \/ \E i \in 1..Len(proxies) : check_single_ok(i)
  \/ \E i \in 1..Len(proxies) :
       \E o \in ProbeOutcomes \ {"ok"} : check_single_fails(i, o)
  \/ health_check_returns
  \/ \E i \in 1..Len(proxies) : check_single_ok_meanwhile(i)
  \/ \E i \in 1..Len(proxies) :
       \E o \in ProbeOutcomes \ {"ok"} : check_single_fails_meanwhile(i, o)
  \/ health_check_returns_meanwhile

SpecRace == InitRace /\ [][NextRace]_vars

\* ------------------------------------------ WaitStrategies.retry_until
\* the arguments given to retry_until; delay and backoff are whole
\* numbers, for which current_delay *= backoff is exact
RetryCounts == 0..MaxRetriesArg
Delays == {0, DefaultDelay, 3}
Backoffs == {1, DefaultBackoff, 3}

\* raise x: only an exception can be raised, raise None is a TypeError
Raise(x) == IF x = None THEN "TypeError" ELSE x

\* retry_until(action, max_retries=mr, delay=d, backoff=b) up to its
\* first await: the locals of lines 102-103, then the head of the loop
retry_until(mr, d, b) ==
  /\ ru_pc = "idle"
  /\ max_retries' = mr
  /\ delay' = d
  /\ backoff' = b
  /\ last_error' = None
  /\ current_delay' = d
  /\ ru_attempt' = 0
  /\ IF mr > 0
     THEN /\ ru_pc' = "calling"
          /\ ru_done' = ru_done
     ELSE /\ ru_pc' = "raised"
          /\ ru_done' = [how |-> "raised", what |-> Raise(None)]
  /\ UNCHANGED <<ru_outcomes, ru_waits>>
  /\ UNCHANGED runnerVars
  /\ UNCHANGED poolVars

\* a success that is recorded as the result while the loop goes on
retry_action_returns_goes_on(v) ==
  /\ ru_pc = "calling"
  /\ ru_outcomes' = Append(ru_outcomes, [how |-> "returned", what |-> v])
  /\ ru_done' = [how |-> "returned", what |-> v]
  /\ ru_pc' = IF ru_attempt < max_retries - 1 THEN "calling" ELSE "returned"
  /\ ru_attempt' = ru_attempt + 1
  /\ UNCHANGED <<max_retries, delay, backoff, current_delay, last_error,
                 ru_waits>>
  /\ UNCHANGED runnerVars
  /\ UNCHANGED poolVars

\* result = await action(); return result
retry_action_returns(v) ==
  /\ ru_pc = "calling"
  /\ ru_outcomes' = Append(ru_outcomes, [how |-> "returned", what |-> v])
  /\ ru_done' = [how |-> "returned", what |-> v]
  /\ ru_pc' = "returned"
  /\ UNCHANGED <<max_retries, delay, backoff, current_delay, last_error,
                 ru_attempt, ru_waits>>
  /\ UNCHANGED runnerVars
  /\ UNCHANGED poolVars

\* a loop that keeps the error of the first failure
retry_action_raises_keeps_first(e) ==
  /\ ru_pc = "calling"
  /\ ru_outcomes' = Append(ru_outcomes, [how |-> "raised", what |-> e])
  /\ last_error' = IF last_error = None THEN e ELSE last_error
  /\ IF ru_attempt < max_retries - 1
     THEN /\ ru_waits' = Append(ru_waits, current_delay)
          /\ ru_pc' = "sleeping"
          /\ ru_done' = ru_done
     ELSE /\ ru_waits' = ru_waits
          /\ ru_pc' = "raised"
          /\ ru_done' = [how |-> "raised", what |-> Raise(last_error')]
  /\ UNCHANGED <<max_retries, delay, backoff, current_delay, ru_attempt>>
  /\ UNCHANGED runnerVars
  /\ UNCHANGED poolVars

\* the action raised e: lines 110-113, and line 116 after the last attempt
retry_action_raises(e) ==
  /\ ru_pc = "calling"
  /\ ru_outcomes' = Append(ru_outcomes, [how |-> "raised", what |-> e])
  /\ last_error' = e
  /\ IF ru_attempt < max_retries - 1
     THEN /\ ru_waits' = Append(ru_waits, current_delay)
          /\ ru_pc' = "sleeping"
          /\ ru_done' = ru_done
     ELSE /\ ru_waits' = ru_waits
          /\ ru_pc' = "raised"
          /\ ru_done' = [how |-> "raised", what |-> Raise(e)]
  /\ UNCHANGED <<max_retries, delay, backoff, current_delay, ru_attempt>>
  /\ UNCHANGED runnerVars
  /\ UNCHANGED poolVars

\* a delay that grows by adding backoff
retry_sleep_returns_adds ==
  /\ ru_pc = "sleeping"
  /\ current_delay' = current_delay + backoff
  /\ ru_attempt' = ru_attempt + 1
  /\ ru_pc' = "calling"
  /\ UNCHANGED <<max_retries, delay, backoff, last_error, ru_done,
                 ru_outcomes, ru_waits>>
  /\ UNCHANGED runnerVars
  /\ UNCHANGED poolVars

\* asyncio.sleep is over: line 114, then the next turn of the loop
retry_sleep_returns ==
  /\ ru_pc = "sleeping"
  /\ current_delay' = current_delay * backoff
  /\ ru_attempt' = ru_attempt + 1
  /\ ru_pc' = "calling"
  /\ UNCHANGED <<max_retries, delay, backoff, last_error, ru_done,
                 ru_outcomes, ru_waits>>
  /\ UNCHANGED runnerVars
  /\ UNCHANGED poolVars

NextRetry ==
  \/ \E mr \in RetryCounts : \E d \in Delays : \E b \in Backoffs :
       retry_until(mr, d, b)
  \/ \E v \in Values : retry_action_returns(v)
  \/ \E e \in Errors : retry_action_raises(e)
  \/ retry_sleep_returns

SpecRetry == Init /\ [][NextRetry]_vars

\* ------------------------------------------------------------ vocabulary
Registered == Range(taskKeys)

Running == {"loop", "call", "sleep"}

DepSet(t) == Range(dependsOn[t])

\* the names a task depends on, directly or transitively
RECURSIVE Closure(_)
Closure(S) ==
  LET T == S \cup UNION {DepSet(x) : x \in S}
  IN  IF T = S THEN S ELSE Closure(T)

Reach(t) == Closure(DepSet(t))

Acyclic == \A t \in Registered : t \notin Reach(t)

Pos(seq, x) == CHOOSE i \in 1..Len(seq) : seq[i] = x

\* the tasks the running execute has already given a result
Processed == {order[i] : i \in 1..(idx - 1)}

StatusOf(rs, t) == GetResult(rs, t).status

\* ----------------------------------------------------------------- C1
\* C1: execute never raises because a task's action failed: once a task's
\* action has raised or timed out on every attempt, the head of the loop is
\* reached again with a failed result for that task whose error is the
\* last attempt's error, and execute does not end by raising.
C1_FailureIsRecorded ==
  /\ pc # "raised"
  /\ (pc = "loop" /\ lastError # NoError)
       => \E t \in Processed :
             /\ HasResult(results, t)
             /\ GetResult(results, t).status = FAILED
             /\ GetResult(results, t).error = lastError

\* ----------------------------------------------------------------- C2
\* the chain A, B depends on A, C depends on B, with retry_count = 1 for A
ChainGraph ==
  /\ Registered = {"A", "B", "C"}
  /\ dependsOn["A"] = <<>>
  /\ dependsOn["B"] = <<"A">>
  /\ dependsOn["C"] = <<"B">>
  /\ retryCount["A"] = 1

\* an execute of a fresh TaskRunner is over and A did not complete
ChainRunWhereAFailed ==
  /\ ChainGraph
  /\ pc \in Over
  /\ \/ ~HasResult(results, "A")
     \/ GetResult(results, "A").status = FAILED

\* C2: an action is only ever awaited for a task all of whose dependencies
\* have a completed result; and the execute of the chain in which A fails
\* all its attempts returns A failed, B skipped, C skipped, failed = 1,
\* skipped = 2, completed = 0.
C2_FailurePropagatesAsSkips ==
  /\ pc \in {"call", "sleep"} =>
        \A d \in DepSet(order[idx]) :
           HasResult(results, d) /\ GetResult(results, d).status = COMPLETED
  /\ ChainRunWhereAFailed =>
        /\ pc = "returned"
        /\ \A t \in {"A", "B", "C"} : HasResult(wf.task_results, t)
        /\ StatusOf(wf.task_results, "A") = FAILED
        /\ StatusOf(wf.task_results, "B") = SKIPPED
        /\ StatusOf(wf.task_results, "C") = SKIPPED
        /\ wf.failed = 1
        /\ wf.skipped = 2
        /\ wf.completed = 0

\* ----------------------------------------------------------------- C3
\* C3: for an acyclic dependency graph, whatever the registration order,
\* the order computed by _resolve_order holds every registered task once
\* and places it after every registered task it depends on, directly or
\* transitively.
C3_OrderIsTopological ==
  (pc \in Running /\ Acyclic) =>
     /\ Range(order) = Registered
     /\ Len(order) = Cardinality(Registered)
     /\ \A t \in Registered : \A d \in Reach(t) \cap Registered :
           Pos(order, d) < Pos(order, t)

\* an execute has computed the order of a transitive chain that was
\* registered dependants first
C3_Witness ==
  /\ pc = "loop"
  /\ idx = 1
  /\ taskKeys = <<"C", "B", "A">>
  /\ dependsOn["C"] = <<"B">>
  /\ dependsOn["B"] = <<"A">>
  /\ dependsOn["A"] = <<>>
  /\ order = <<"A", "B", "C">>

\* ----------------------------------------------------------------- C4
\* C4: an execute of a cyclic dependency graph (a task that depends on
\* itself included) raises a cycle-detected error out of _resolve_order:
\* it never reaches the for loop, awaits no action and returns no
\* WorkflowResult.
C4_CycleIsRejected ==
  (runs > 0 /\ ~Acyclic) => (pc = "raised" /\ raisedExc = "CycleDetected")

\* ----------------------------------------------------------------- C5
\* a registered task whose depends_on names a task that is not registered
NamesUnregistered(t) == t \in Registered /\ ~(DepSet(t) \subseteq Registered)

\* C5: a task whose depends_on names an unregistered task is recorded
\* skipped by every execute, whatever the other tasks do, and its action
\* is never awaited.
C5_UnregisteredDependencySkips ==
  \A t \in TaskNames : NamesUnregistered(t) =>
     /\ pc \in {"call", "sleep"} => order[idx] # t
     /\ pc \in Over => /\ HasResult(results, t)
                       /\ GetResult(results, t).status = SKIPPED

\* ----------------------------------------------------------------- C6
\* while a task is being attempted: it is reached once by this execute,
\* the calls made so far are attempt + 1 and at most retry_count + 1; one
\* sleep lies between two calls, and a sleep is only entered when another
\* attempt remains
C6_AttemptsBounded ==
  pc \in {"call", "sleep"} =>
     /\ \A i \in 1..Len(order) : order[i] = order[idx] => i = idx
     /\ calls = attempt + 1
     /\ calls <= retryCount[order[idx]] + 1
     /\ pc = "call" => sleeps = calls - 1
     /\ pc = "sleep" => (sleeps = calls /\ calls <= retryCount[order[idx]])

\* a failed attempt followed by its sleep consumes one attempt of the same
\* task; an attempt that produces a value ends the task as completed with
\* no further call and no further sleep
C6_AttemptStep ==
  /\ (pc = "sleep" /\ pc' = "call") =>
        (attempt' = attempt + 1 /\ calls' = calls + 1 /\ idx' = idx
         /\ sleeps' = sleeps)
  /\ (pc = "call" /\ lastError' = NoError /\ pc' # "call") =>
        /\ pc' = "loop"
        /\ idx' = idx + 1
        /\ calls' = calls
        /\ sleeps' = sleeps
        /\ HasResult(results', order[idx])
        /\ GetResult(results', order[idx]).status = COMPLETED

\* C6: within one execute a task's action is invoked at most
\* retry_count + 1 times, each raise or timeout consumes one attempt, the
\* first success ends the task as completed without a further attempt, and
\* the backoff sleep happens only between attempts, never after the last.
C6_RetryDiscipline == []C6_AttemptsBounded /\ [][C6_AttemptStep]_vars

\* a task has just completed on its second attempt, after one sleep
C6_Witness ==
  /\ pc = "loop"
  /\ idx > 1
  /\ calls = 2
  /\ sleeps = 1
  /\ retryCount[order[idx - 1]] = 1
  /\ GetResult(results, order[idx - 1]).status = COMPLETED

\* ----------------------------------------------------------------- C7
\* C7: whenever the loop is at its head or a later task is being attempted,
\* every task this execute completed with a value other than None has that
\* value in the context under its name, and a task that completed with
\* None has no entry.
C7_NonNullValueMerged ==
  pc \in Running =>
     \A t \in Processed :
        LET r == GetResult(results, t)
        IN  r.status = COMPLETED =>
               /\ r.result_data # PyNone => context[t] = r.result_data
               /\ r.result_data = PyNone => context[t] = Absent

\* ----------------------------------------------------------------- C8
\* C8: a result recorded by an earlier execute never satisfies a
\* dependency check: a task is only attempted when each of its
\* dependencies was given its result by the running execute; and an
\* execute that has returned leaves exactly one result per registered task.
C8_NoCrossRunResults ==
  /\ pc \in {"call", "sleep"} => DepSet(order[idx]) \subseteq Processed
  /\ pc = "returned" =>
        /\ Len(results) = Cardinality(Registered)
        /\ \A t \in Registered : HasResult(results, t)

\* ----------------------------------------------------------------- C9
\* the number of distinct task names whose result in rs has status s
NamesWithStatus(rs, s) ==
  Cardinality({n \in TaskNames : \E i \in 1..Len(rs) :
                  rs[i].task_name = n /\ rs[i].status = s})

\* C9: in every WorkflowResult that execute returns, completed, failed
\* and skipped are the numbers of task results with that status, and their
\* sum equals total_tasks, which equals the number of registered tasks.
C9_CountsAreTallies ==
  pc = "returned" =>
     /\ wf.completed = NamesWithStatus(wf.task_results, COMPLETED)
     /\ wf.failed = NamesWithStatus(wf.task_results, FAILED)
     /\ wf.skipped = NamesWithStatus(wf.task_results, SKIPPED)
     /\ wf.completed + wf.failed + wf.skipped = wf.total_tasks
     /\ wf.total_tasks = Cardinality(Registered)
     /\ wf.total_tasks = Len(wf.task_results)

\* a second execute of the same TaskRunner has returned a WorkflowResult
\* holding a completed and a skipped task
C9_Witness ==
  /\ pc = "returned"
  /\ runs = 2
  /\ wf.completed = 1
  /\ wf.skipped = 1
  /\ wf.total_tasks = 2

\* ---------------------------------------------------------------- C10
\* C10: an execute of an acyclic graph, once over, has returned a
\* WorkflowResult that holds a result for every registered task, each with
\* status completed, failed or skipped.
C10_RunsToCompletion ==
  (pc \in Over /\ Acyclic) =>
     /\ pc = "returned"
     /\ \A t \in Registered :
           /\ HasResult(wf.task_results, t)
           /\ StatusOf(wf.task_results, t) \in {COMPLETED, FAILED, SKIPPED}

\* ---------------------------------------------------------------- C11
\* C11: a task that exhausts its retries does not abort the run: the
\* execute still comes to its end by returning, and by then every
\* registered task whose dependencies all have a completed result was
\* itself invoked and has its own completed or failed result.
C11_FailureDoesNotAbort ==
  pc \in Over =>
     /\ pc = "returned"
     /\ \A t \in Registered :
           dependencies_met(dependsOn[t], results) =>
              /\ HasResult(results, t)
              /\ GetResult(results, t).status \in {COMPLETED, FAILED}

\* ----------------------------------------------------- pool vocabulary
\* the latest call on the pool was a get_next
JustGotNext == lastOp.op = "get_next"

\* the positions of the records that are healthy / that carry url u
HealthyAt == {i \in 1..Len(proxies) : proxies[i].is_healthy}
Named(u) == {i \in 1..Len(proxies) : proxies[i].url = u}

\* ---------------------------------------------------------------- C12
\* C12: after any sequence of pool calls, a get_next (any strategy)
\* returns None exactly when no record is healthy, the empty pool
\* included, and otherwise returns the url of a record that is healthy
\* at that call.
C12_ReturnsOnlyHealthy ==
  JustGotNext =>
     /\ (lastOp.ret = None) <=> (HealthyAt = {})
     /\ lastOp.ret # None =>
           /\ lastOp.i \in HealthyAt
           /\ proxies[lastOp.i].url = lastOp.ret

\* a get_next returned "b" while the record of "a" was unhealthy
C12_Witness ==
  /\ JustGotNext
  /\ lastOp.ret = "b"
  /\ \E j \in Named("a") : ~proxies[j].is_healthy

\* ---------------------------------------------------------------- C13
\* C13: once max_failures consecutive report_failure(u) calls were made
\* for a pool member u, with no report_success(u) and no successful
\* probe of u since the first of them, no get_next returns u.
C13_BlockedAfterFailures ==
  (JustGotNext /\ lastOp.ret # None) => streak[lastOp.ret] < maxFailures

SweepReturned == lastOp.op = "health_check" /\ lastOp.ret = "counts"

\* the records whose probe of the latest sweep failed / succeeded
FailedProbes ==
  {i \in 1..Len(probe) : probe[i] \in {"bad_status", "exception"}}
OkProbes == {i \in 1..Len(probe) : probe[i] = "ok"}

\* C15 as claimed: a health_check in which k probes fail and the other
\* n - k succeed returns healthy = n - k and unhealthy = k.
C15_CountsAreProbeOutcomes ==
  SweepReturned =>
     /\ hcResult.healthy = Cardinality(OkProbes)
     /\ hcResult.unhealthy = Cardinality(FailedProbes)

\* C15 as amended: a health_check on a pool that got no report calls
\* returns as unhealthy the number of records whose probe failed and
\* whose fail_count thereby is at or above max_failures, and as healthy
\* the others.
C15_CountsFollowThreshold ==
  LET atThreshold ==
        {i \in FailedProbes : proxies[i].fail_count >= maxFailures}
  IN SweepReturned =>
        /\ hcResult.unhealthy = Cardinality(atThreshold)
        /\ hcResult.healthy = Len(proxies) - Cardinality(atThreshold)

\* the claim's own pool: five records, the default max_failures, two
\* failed and three successful probes, and the counts 5 and 0
C15_Witness ==
  /\ SweepReturned
  /\ Len(proxies) = 5
  /\ maxFailures = DefaultMaxFailures
  /\ Cardinality(FailedProbes) = 2
  /\ Cardinality(OkProbes) = 3
  /\ hcResult = [healthy |-> 5, unhealthy |-> 0]

\* ---------------------------------------------------------------- C16
\* the latest call on the pool was a round-robin get_next
JustGotRoundRobin == JustGotNext /\ lastOp.arg = "round_robin"

\* C16: on the pool [a, b, c] with every record healthy, the i-th
\* round-robin get_next returns the record at position (i - 1) mod 3,
\* that is a, b, c, a, b, c, ..., whatever calls of the other strategies
\* come in between.
C16_RoundRobinCycles ==
  JustGotRoundRobin =>
     /\ lastOp.i = ((rrCalls - 1) % Len(RotateList)) + 1
     /\ lastOp.ret = RotateList[lastOp.i]

\* the fifth round-robin call, after calls of other strategies, gave "b"
C16_Witness ==
  /\ JustGotRoundRobin
  /\ rrCalls = 5
  /\ stats.rotations > rrCalls
  /\ lastOp.ret = "b"

\* ---------------------------------------------------------------- C17
\* the latest call on the pool was report_success(u) for a member u
JustSucceeded(u) ==
  /\ lastOp.op = "report_success"
  /\ lastOp.arg = u
  /\ lastOp.i # 0

\* some strategy makes the very next get_next return u
CanReturn(u) ==
  LET healthy == HealthyIdx(proxies) IN
  /\ healthy # <<>>
  /\ \E s \in Strategies :
       \E k \in Pick(s, proxies, healthy, rrIndex) :
          proxies[healthy[k]].url = u

\* C17: report_success(u) for a pool member u, in any state, leaves the
\* record of u with fail_count 0 and healthy, so that the very next
\* get_next can return u.
C17_SuccessRestores ==
  \A u \in Urls :
     JustSucceeded(u) =>
        /\ proxies[lastOp.i].url = u
        /\ proxies[lastOp.i].fail_count = 0
        /\ proxies[lastOp.i].is_healthy
        /\ CanReturn(u)

\* report_success("a") on the pool ["a"] with max_failures 2, after two
\* report_failure("a") calls
C17_Witness ==
  /\ JustSucceeded("a")
  /\ stats.failures = 2
  /\ maxFailures = 2
  /\ streak["a"] = 0
  /\ Len(proxies) = 1

\* ---------------------------------------------------------------- C18
\* the step was a report_success that found record i, or a probe of
\* record i that came back with status 200
ResetsRecord(i) ==
  \/ /\ lastOp'.op = "report_success"
     /\ lastOp'.arg = proxies[i].url
     /\ lastOp'.i = i
  \/ /\ lastOp'.op = "probe"
     /\ lastOp'.arg = "ok"
     /\ lastOp'.i = i

C18_Step ==
  \A i \in 1..Len(proxies) :
     /\ proxies'[i].fail_count < proxies[i].fail_count =>
           /\ proxies'[i].fail_count = 0
           /\ ResetsRecord(i)
     /\ ResetsRecord(i) => proxies'[i].fail_count = 0

\* C18: a record's fail_count goes down only by being set to 0, only in
\* a report_success for its url or a successful probe of it, and each of
\* these two sets it to 0; get_next, report_failure and failed probes
\* never lower it.
C18_CountOnlyResets == [][C18_Step]_vars

\* a successful probe of the only record of a pool, after two
\* report_failure calls on it
C18_Witness ==
  /\ lastOp.op = "probe"
  /\ lastOp.arg = "ok"
  /\ Len(proxies) = 1
  /\ stats.failures = 2
  /\ proxies[1].fail_count = 0

\* ---------------------------------------------------------------- C19
\* C19: a health_check starts one probe for every record, healthy or
\* not; it returns only when every probe has settled by status 200,
\* another status or an exception, and then its counts add up to the
\* pool size and are those of the records' health at that moment, calls
\* made on the pool during the sweep included.
C19_SweepGatedOnAllProbes ==
  /\ hcPc = "gathering" =>
        /\ Len(probe) = Len(proxies)
        /\ \A i \in 1..Len(proxies) : probe[i] \in ProbeOutcomes \cup {"pending"}
  /\ SweepReturned =>
        /\ \A i \in 1..Len(proxies) : probe[i] \in ProbeOutcomes
        /\ hcResult.healthy + hcResult.unhealthy = Len(proxies)
        /\ hcResult.healthy = Cardinality(HealthyAt)

\* a sweep over two records returned after one probe ended in an
\* exception and a report_failure had come in during the sweep
C19_Witness ==
  /\ SweepReturned
  /\ Len(proxies) = 2
  /\ \E i \in 1..Len(proxies) : probe[i] = "exception"
  /\ stats.failures > 0
  /\ hcResult.unhealthy = 2

\* ---------------------------------------------------------------- C20
\* the step is a get_next that returns a url
ReturnsUrl == stats'.rotations = stats.rotations + 1

\* C20 as claimed: every get_next that returns a url, whatever its
\* strategy, advances the cursor by one modulo the count of healthy
\* records.
C20_CursorAdvancesOnEveryCall ==
  [][ReturnsUrl =>
        rrIndex' % healthy_count(proxies)
           = (rrIndex + 1) % healthy_count(proxies)]_vars

C20_Step ==
  /\ (ReturnsUrl /\ lastOp'.arg = "round_robin") =>
        rrIndex' = (rrIndex % healthy_count(proxies)) + 1
  /\ ~(ReturnsUrl /\ lastOp'.arg = "round_robin") => rrIndex' = rrIndex

\* C20 as amended: the cursor is one piece of state of the pool that
\* only a round_robin get_next returning a url moves, to (cursor mod the
\* count of healthy records) + 1; random and least_used calls and every
\* other call leave it as it is.
C20_CursorMovesOnRoundRobinOnly == [][C20_Step]_vars

\* a random get_next returned a url after one round_robin call, and the
\* cursor still is where the round_robin call left it
C20_Witness ==
  /\ JustGotNext
  /\ lastOp.arg = "random"
  /\ lastOp.ret # None
  /\ stats.rotations = 2
  /\ rrCalls = 1
  /\ rrIndex = 1
  /\ Cardinality(HealthyAt) = 2

\* ---------------------------------------------------------------- C21
\* the step is a get_next of the least-recently-used strategy (the
\* string "least_used" of line 83) that returns a url
ReturnsLeastUsed == ReturnsUrl /\ lastOp'.arg = "least_used"

C21_Step ==
  ReturnsLeastUsed =>
     LET i == lastOp'.i IN
     /\ i \in HealthyAt
     /\ lastOp'.ret = proxies[i].url
     /\ \A j \in HealthyAt : proxies[i].last_used <= proxies[j].last_used
     /\ \A j \in HealthyAt :
           j < i => proxies[j].last_used > proxies[i].last_used
     /\ proxies'[i].last_used = now'
     /\ \A j \in 1..Len(proxies) : j # i => proxies'[j] = proxies[j]

\* C21: a least-recently-used get_next returns the healthy record with
\* the smallest last_used, the earliest in the list among equal ones,
\* and sets the last_used of that record, and of no other, to the time
\* of the call.
C21_LeastUsedFirstMinimum == [][C21_Step]_vars

\* a least-recently-used get_next passed over the healthy first record,
\* used before, and returned the second one
C21_Witness ==
  /\ JustGotNext
  /\ lastOp.arg = "least_used"
  /\ lastOp.i = 2
  /\ proxies[1].is_healthy
  /\ proxies[1].last_used > 0

\* --------------------------------------------------- retry vocabulary
\* retry_until has come to its end
RetryOver == ru_pc \in {"returned", "raised"}

\* the invocations of the action that ended by raising / by returning
FailedCalls == {n \in 1..Len(ru_outcomes) : ru_outcomes[n].how = "raised"}
GoodCalls == {n \in 1..Len(ru_outcomes) : ru_outcomes[n].how = "returned"}

\* ---------------------------------------------------------------- C22
\* C22: when the action fails k < max_retries times and then succeeds,
\* retry_until returns the value of that success and the action was
\* invoked k + 1 times: retry_until does not give up before, and no
\* invocation follows the first success.
C22_ReturnsFirstSuccess ==
  /\ \A n \in GoodCalls :
        /\ n = Len(ru_outcomes)
        /\ n <= max_retries
        /\ ru_pc = "returned"
        /\ ru_done = ru_outcomes[n]
  /\ (ru_pc # "idle" /\ GoodCalls = {}
         /\ Cardinality(FailedCalls) < max_retries) =>
        ru_pc \in {"calling", "sleeping"}

\* two failures, then a success on the third and last allowed invocation
C22_Witness ==
  /\ ru_pc = "returned"
  /\ max_retries = 3
  /\ Cardinality(FailedCalls) = 2
  /\ Len(ru_outcomes) = 3
  /\ ru_done.what = PyTruthy

\* ---------------------------------------------------------------- C23
\* C23: when every invocation of the action fails, retry_until ends by
\* raising only after exactly max_retries invocations, and what it
\* raises is the error of the last of them.
C23_RaisesLastError ==
  (ru_pc = "raised" /\ max_retries > 0) =>
     /\ Len(ru_outcomes) = max_retries
     /\ FailedCalls = 1..max_retries
     /\ ru_done.how = "raised"
     /\ ru_done.what = ru_outcomes[max_retries].what

\* three failures, the last with an error other than the first two
C23_Witness ==
  /\ ru_pc = "raised"
  /\ max_retries = 3
  /\ ru_outcomes[1].what = "boom"
  /\ ru_outcomes[2].what = "boom"
  /\ ru_outcomes[3].what = "TimeoutError"
  /\ ru_done.what = "TimeoutError"

\* ---------------------------------------------------------------- C24
RECURSIVE Pow(_, _)
Pow(b, n) == IF n = 0 THEN 1 ELSE b * Pow(b, n - 1)

Reports == lastOp'.op \in {"report_failure", "report_success"}

\* the part of the pool the report calls may touch
C25_Step ==
  Reports =>
     /\ rrIndex' = rrIndex
     /\ stats'.rotations = stats.rotations
     /\ Len(proxies') = Len(proxies)
     /\ IF Named(lastOp'.arg) = {}
        THEN /\ proxies' = proxies
             /\ stats' = stats
        ELSE LET first == CHOOSE i \in Named(lastOp'.arg) :
                             \A k \in Named(lastOp'.arg) : i <= k
             IN \A j \in 1..Len(proxies) :
                   j # first => proxies'[j] = proxies[j]

\* C25: report_failure(url) and report_success(url) with a url that no
\* record carries change no record, not the cursor and neither counter;
\* with a member url they change no record but the first that carries
\* it, and not the cursor.
C25_ReportsTouchFirstMatchOnly == [][C25_Step]_vars

\* report_failure("b") on a pool that has only "a", after a failure of
\* "a" was counted
C25_Witness ==
  /\ lastOp.op = "report_failure"
  /\ lastOp.arg = "b"
  /\ Named("b") = {}
  /\ Len(proxies) > 0
  /\ stats.failures = 1

\* ---------------------------------------------------------------- C26
\* C26: the url is a unique key of the pool: whatever list of endpoint
\* strings the pool was built from, repeated strings included, no two
\* records carry the same url, so that every record get_next can return
\* as u is the one report_failure(u) and report_success(u) act on.
C26_UrlIsUniqueKey ==
  /\ \A i, j \in 1..Len(proxies) :
        proxies[i].url = proxies[j].url => i = j
  /\ (JustGotNext /\ lastOp.ret # None) =>
        lastOp.i = FirstMatch(proxies, lastOp.ret)

\* ---------------------------------------------------------------- C27
\* C27: with the probes of one or two health_check calls in flight and
\* report_failure, report_success and get_next calls running at their
\* suspension points, no update of a record is lost or torn: every
\* record's fail_count is the number of failures reported on it or
\* probed on it since its last report_success or successful probe, and
\* the record is healthy exactly when that count is below max_failures.
C27_NoLostUpdate ==
  \A i \in 1..Len(proxies) :
     /\ proxies[i].fail_count = failuresSince[i]
     /\ proxies[i].is_healthy <=> (failuresSince[i] < maxFailures)

\* two health_check calls are in flight, a probe of each has failed on
\* the first record, and a report_failure on it came in as well
C27_Witness ==
  /\ hcPc = "gathering"
  /\ hcPc2 = "gathering"
  /\ probe[1] \in ProbeOutcomes \ {"ok"}
  /\ probe2[1] \in ProbeOutcomes \ {"ok"}
  /\ stats.failures = 1
  /\ proxies[1].fail_count = 3

\* ---------------------------------------------------------------- C28
\* C28: for every max_retries >= 0, when retry_until comes to its end it
\* returns a value that an invocation of the action returned, or raises
\* an error that an invocation of the action raised, never an error of
\* its own; this includes max_retries = 0, where the action is never
\* invoked.
C28_EndsWithAnOutcomeOfTheAction ==
  RetryOver =>
     \E n \in 1..Len(ru_outcomes) : ru_outcomes[n] = ru_done

\* ---------------------------------------------------------------- C29
\* the task names of a list of results, in the order of the list
NamesOf(rs) == [i \in 1..Len(rs) |-> rs[i].task_name]

\* C29: the task_results of the WorkflowResult an execute returns list
\* the results in the order in which that execute processed the tasks,
\* also when it is a later execute on the same TaskRunner whose order
\* differs from the one before.
C29_ResultsInProcessingOrder ==
  [][(pc = "loop" /\ pc' = "returned") =>
        NamesOf(wf'.task_results) = order]_vars

\* ---------------------------------------------------------------- C30
\* what kind of call a step of the pool is, read from its record
StepIs(op) == lastOp'.op = op

\* the step is a get_next that returns a url / a report_failure that
\* names a pool member
GotUrl == StepIs("get_next") /\ lastOp'.ret # None
FailedMember == StepIs("report_failure") /\ Named(lastOp'.arg) # {}

C30_Step ==
  /\ stats'.rotations = stats.rotations + (IF GotUrl THEN 1 ELSE 0)
  /\ stats'.failures = stats.failures + (IF FailedMember THEN 1 ELSE 0)
  /\ Len(proxies') = Len(proxies)
  /\ \A i \in 1..Len(proxies) : proxies'[i].url = proxies[i].url

\* C30: stats.rotations counts the get_next calls that returned a url
\* and stats.failures the report_failure calls that named a pool member:
\* each such call adds one to its counter, and a get_next returning
\* None, a report_failure of a url no record carries, a report_success
\* and a probe, failed or successful, change neither; the pool keeps its
\* size and its urls from construction on.
C30_StatsCountCalls == [][C30_Step]_vars

\* both counters have counted, and a failed probe has raised a record's
\* fail_count above what report_failure calls account for
C30_Witness ==
  /\ stats.rotations = 2
  /\ stats.failures = 1
  /\ Len(proxies) = 1
  /\ proxies[1].fail_count = 2
  /\ lastOp.op = "get_next"
  /\ lastOp.ret = None
====
